---- MODULE Spec2Model ----
(***************************************************************************)
(* Model of hexb64 (src/src/main.rs): a command-line converter between     *)
(* Base64 and hexadecimal text.  A string is a sequence of characters,     *)
(* each character a one-element token; the token "U+00E9" stands for the   *)
(* character e-acute, which is one char and two UTF-8 bytes.               *)
(***************************************************************************)
EXTENDS Integers, Sequences, FiniteSets, TLC

VARIABLES
    pc, exe_name, args, arg_i, mode, hex_case, b64_urlsafe, data_arg,
    input_raw, input, result, stdout, stderr, exit_code, fail, steps,
    stdin_read, conv_calls,
    t_pc, t_text, t_bytes, t_case, t_url, t_res, t_dec

vars == << pc, exe_name, args, arg_i, mode, hex_case, b64_urlsafe, data_arg,
           input_raw, input, result, stdout, stderr, exit_code, fail, steps,
           stdin_read, conv_calls,
           t_pc, t_text, t_bytes, t_case, t_url, t_res, t_dec >>

mainVars == << pc, exe_name, args, arg_i, mode, hex_case, b64_urlsafe, data_arg,
               input_raw, input, result, stdout, stderr, exit_code, fail, steps,
               stdin_read, conv_calls >>

testVars == << t_pc, t_text, t_bytes, t_case, t_url, t_res, t_dec >>

-----------------------------------------------------------------------------
(* Bounds of the model *)

MaxHexLen == 4
MaxBytes == 3
MaxArgs == 3

-----------------------------------------------------------------------------
(* Characters and strings *)

\* char::is_whitespace, restricted to the whitespace characters of the model
IsWhitespace(c) == c \in {" ", "\t", "\n", "\r"}

\* char::len_utf8
len_utf8(c) == IF c = "U+00E9" THEN 2 ELSE 1

\* str::len: the length in bytes
RECURSIVE str_len(_)
str_len(s) == IF s = << >> THEN 0 ELSE len_utf8(Head(s)) + str_len(Tail(s))

\* str::starts_with
starts_with(s, p) == Len(s) >= Len(p) /\ SubSeq(s, 1, Len(p)) = p

RECURSIVE trim_start(_)
trim_start(s) ==
    IF s # << >> /\ IsWhitespace(Head(s)) THEN trim_start(Tail(s)) ELSE s

RECURSIVE trim_end(_)
trim_end(s) ==
    IF s # << >> /\ IsWhitespace(s[Len(s)])
    THEN trim_end(SubSeq(s, 1, Len(s) - 1)) ELSE s

\* str::trim
trim(s) == trim_end(trim_start(s))

\* s.split_whitespace().collect::<String>()
RECURSIVE split_whitespace_collect(_)
split_whitespace_collect(s) ==
    IF s = << >> THEN << >>
    ELSE IF IsWhitespace(Head(s)) THEN split_whitespace_collect(Tail(s))
    ELSE << Head(s) >> \o split_whitespace_collect(Tail(s))

-----------------------------------------------------------------------------
(* Results: Result<T, String>, and the abort of an out-of-bounds index *)

Ok(v) == [tag |-> "Ok", val |-> v, msg |-> ""]
Err(m, d) == [tag |-> "Err", val |-> d, msg |-> m]
Panic(m) == [tag |-> "Panic", val |-> << >>, msg |-> m]
NoResult == [tag |-> "None", val |-> << >>, msg |-> ""]

-----------------------------------------------------------------------------
(* Hex codec *)

HEX_LOWER == << "0", "1", "2", "3", "4", "5", "6", "7", "8", "9",
                "a", "b", "c", "d", "e", "f" >>
HEX_UPPER == << "0", "1", "2", "3", "4", "5", "6", "7", "8", "9",
                "A", "B", "C", "D", "E", "F" >>

\* char::to_digit(16); -1 stands for None
to_digit(c) ==
    IF \E i \in 1..16 : HEX_LOWER[i] = c
    THEN (CHOOSE i \in 1..16 : HEX_LOWER[i] = c) - 1
    ELSE IF \E i \in 1..16 : HEX_UPPER[i] = c
    THEN (CHOOSE i \in 1..16 : HEX_UPPER[i] = c) - 1
    ELSE -1

RECURSIVE digits_value(_, _)
digits_value(ds, acc) ==
    IF ds = << >> THEN acc
    ELSE IF to_digit(Head(ds)) = -1 THEN -1
    ELSE IF acc * 16 + to_digit(Head(ds)) > 255 THEN -1
    ELSE digits_value(Tail(ds), acc * 16 + to_digit(Head(ds)))

\* u8::from_str_radix(src, 16); -1 stands for Err(ParseIntError).  The
\* standard library accepts one leading '+' (and, u8 being unsigned, no '-').
from_str_radix(src) ==
    IF src = << >> THEN -1
    ELSE IF src = << "+" >> \/ src = << "-" >> THEN -1
    ELSE IF Head(src) = "+" THEN digits_value(Tail(src), 0)
    ELSE digits_value(src, 0)

\* the loop of parse_hex: for i in (0..chars.len()).step_by(2)
RECURSIVE parse_pairs(_, _, _)
parse_pairs(chars, i, bytes) ==
    IF i > Len(chars) THEN Ok(bytes)
    ELSE IF i + 1 > Len(chars) THEN Panic("index out of bounds")
    ELSE LET pair == << chars[i], chars[i + 1] >>
             byte == from_str_radix(pair)
         IN  IF byte = -1 THEN Err("Invalid hex pair", pair)
             ELSE parse_pairs(chars, i + 2, Append(bytes, byte))

\* a stripping that removes every leading 0x/0X, not only the first
RECURSIVE strip_prefixes(_)
strip_prefixes(t) ==
    IF starts_with(t, << "0", "x" >>) \/ starts_with(t, << "0", "X" >>)
    THEN strip_prefixes(SubSeq(t, 3, Len(t))) ELSE t

hex_stripped_all_prefixes(in) == split_whitespace_collect(strip_prefixes(trim(in)))

\* what parse_hex parses: the input trimmed, without one leading 0x/0X,
\* without whitespace
hex_stripped(in) ==
    LET t == trim(in)
        u == IF starts_with(t, << "0", "x" >>) \/ starts_with(t, << "0", "X" >>)
             THEN SubSeq(t, 3, Len(t)) ELSE t
    IN  split_whitespace_collect(u)

parse_hex(in) ==
    LET s == hex_stripped(in)
    IN  IF s = << >> THEN Err("Empty hex string", << >>)
        ELSE IF str_len(s) % 2 # 0
        THEN Err("Hex string must have even length", << >>)
        ELSE parse_pairs(s, 1, << >>)

\* format!("{:02x}", b) and format!("{:02X}", b)
format_02x(b, c) ==
    LET ds == IF c = "Lower" THEN HEX_LOWER ELSE HEX_UPPER
    IN  << ds[(b \div 16) + 1], ds[(b % 16) + 1] >>

\* the bytes rendered without zero padding, as format!("{:x}") would
RECURSIVE bytes_to_hex_unpadded(_, _)
bytes_to_hex_unpadded(bytes, c) ==
    IF bytes = << >> THEN << >>
    ELSE (IF Head(bytes) < 16 THEN << format_02x(Head(bytes), c)[2] >>
          ELSE format_02x(Head(bytes), c))
         \o bytes_to_hex_unpadded(Tail(bytes), c)

RECURSIVE bytes_to_hex(_, _)
bytes_to_hex(bytes, c) ==
    IF bytes = << >> THEN << >>
    ELSE format_02x(Head(bytes), c) \o bytes_to_hex(Tail(bytes), c)

-----------------------------------------------------------------------------
(* The hex parser applied to every short string over HexChars *)

HexChars == { "0", "1", "a", "F", "x", "X", "+", " ", "g", "U+00E9" }

Strings(chars, n) == UNION { [1..k -> chars] : k \in 0..n }

IdleMain ==
    /\ pc = "Idle" /\ exe_name = << >> /\ args = << >> /\ arg_i = 0
    /\ mode = "None" /\ hex_case = "Lower" /\ b64_urlsafe = FALSE
    /\ data_arg = NoResult /\ input_raw = << >> /\ input = << >>
    /\ result = NoResult /\ stdout = << >> /\ stderr = << >>
    /\ exit_code = -1 /\ fail = "none" /\ steps = << >>
    /\ stdin_read = FALSE /\ conv_calls = << >>

InitParseHex ==
    /\ IdleMain
    /\ t_pc = "start"
    /\ t_text \in Strings(HexChars, MaxHexLen)
    /\ t_bytes = << >> /\ t_case = "Lower" /\ t_url = FALSE
    /\ t_res = NoResult /\ t_dec = NoResult

ApplyParseHex ==
    /\ t_pc = "start"
    /\ t_res' = parse_hex(t_text)
    /\ t_pc' = "parsed"
    /\ UNCHANGED << t_text, t_bytes, t_case, t_url, t_dec >>
    /\ UNCHANGED mainVars

SpecParseHex == InitParseHex /\ [][ApplyParseHex]_vars

-----------------------------------------------------------------------------
(* Reference notions used to state the properties of the hex parser *)

UPPER_LETTERS == << "A", "B", "C", "D", "E", "F", "G", "H", "I", "J", "K", "L", "M",
                    "N", "O", "P", "Q", "R", "S", "T", "U", "V", "W", "X", "Y", "Z" >>
LOWER_LETTERS == << "a", "b", "c", "d", "e", "f", "g", "h", "i", "j", "k", "l", "m",
                    "n", "o", "p", "q", "r", "s", "t", "u", "v", "w", "x", "y", "z" >>

AsciiUpper(c) ==
    IF \E i \in 1..26 : LOWER_LETTERS[i] = c
    THEN UPPER_LETTERS[CHOOSE i \in 1..26 : LOWER_LETTERS[i] = c] ELSE c

AsciiLower(c) ==
    IF \E i \in 1..26 : UPPER_LETTERS[i] = c
    THEN LOWER_LETTERS[CHOOSE i \in 1..26 : UPPER_LETTERS[i] = c] ELSE c

UpperCased(s) == [i \in 1..Len(s) |-> AsciiUpper(s[i])]
LowerCased(s) == [i \in 1..Len(s) |-> AsciiLower(s[i])]

\* the characters [0-9a-fA-F]
HexDigitChars == { "0", "1", "2", "3", "4", "5", "6", "7", "8", "9",
                   "a", "b", "c", "d", "e", "f", "A", "B", "C", "D", "E", "F" }

AllHexDigits(s) == \A i \in 1..Len(s) : s[i] \in HexDigitChars

\* the value of one hex digit, by table
HexDigitValue(c) ==
    CASE c \in {"0"} -> 0 [] c \in {"1"} -> 1 [] c \in {"2"} -> 2 [] c \in {"3"} -> 3
      [] c \in {"4"} -> 4 [] c \in {"5"} -> 5 [] c \in {"6"} -> 6 [] c \in {"7"} -> 7
      [] c \in {"8"} -> 8 [] c \in {"9"} -> 9
      [] c \in {"a", "A"} -> 10 [] c \in {"b", "B"} -> 11 [] c \in {"c", "C"} -> 12
      [] c \in {"d", "D"} -> 13 [] c \in {"e", "E"} -> 14 [] c \in {"f", "F"} -> 15

\* the bytes an even-length string of hex digits denotes
HexDenotes(s) ==
    [k \in 1..(Len(s) \div 2) |->
        16 * HexDigitValue(s[2 * k - 1]) + HexDigitValue(s[2 * k])]

\* the input without surrounding whitespace and without one leading 0x/0X
AfterPrefix(s) ==
    LET t == trim(s)
    IN  IF Len(t) >= 2 /\ t[1] = "0" /\ t[2] \in {"x", "X"}
        THEN SubSeq(t, 3, Len(t)) ELSE t

NoWhitespace(s) == \A i \in 1..Len(s) : ~IsWhitespace(s[i])

\* the characters of s that are not whitespace, in order
WithoutWhitespace(s) ==
    LET keep == { i \in 1..Len(s) : ~IsWhitespace(s[i]) }
        nth(k) == CHOOSE i \in keep : Cardinality({ j \in keep : j <= i }) = k
    IN  [k \in 1..Cardinality(keep) |-> s[nth(k)]]

Remainder(s) == WithoutWhitespace(AfterPrefix(s))

Has0x(s) == \E i \in 1..(Len(s) - 1) : s[i] = "0" /\ s[i + 1] \in {"x", "X"}

-----------------------------------------------------------------------------
(* Properties of parse_hex *)

\* C2: parse_hex rejects every input whose length after prefix and whitespace
\* stripping is odd with the "even length" error, and every non-empty input
\* of even length holding a character outside [0-9a-fA-F] with an "Invalid
\* hex pair" error; in neither case does it return Ok.
C2_RejectsOddAndNonHex ==
    t_pc = "parsed" =>
        LET r == Remainder(t_text)
        IN  /\ Len(r) % 2 = 1 =>
                  /\ t_res.tag = "Err"
                  /\ t_res.msg = "Hex string must have even length"
            /\ (r # << >> /\ Len(r) % 2 = 0 /\ ~AllHexDigits(r)) =>
                  /\ t_res.tag = "Err"
                  /\ t_res.msg = "Invalid hex pair"

\* C10: parse_hex is total: for every input string it returns Ok or Err and
\* never aborts on an index past the end of its character vector; on Ok the
\* number of bytes is half the number of characters left after stripping.
C10_ParseHexTotal ==
    t_pc = "parsed" =>
        /\ t_res.tag \in {"Ok", "Err"}
        /\ t_res.tag = "Ok" => 2 * Len(t_res.val) = Len(Remainder(t_text))

\* C8 as stated: a 0x/0X that is left after the one leading prefix is removed
\* is rejected as an invalid pair; a leading prefix is removed once; the
\* result does not depend on the letter case of the digits.
C8_SecondPrefixIsInvalidPair ==
    t_pc = "parsed" =>
        LET r == Remainder(t_text)
        IN  /\ Has0x(r) => (t_res.tag = "Err" /\ t_res.msg = "Invalid hex pair")
            /\ (r # << >> /\ Len(r) % 2 = 0 /\ AllHexDigits(r)) =>
                  t_res = Ok(HexDenotes(r))
            /\ t_res.tag = "Ok" =>
                  /\ parse_hex(UpperCased(t_text)) = t_res
                  /\ parse_hex(LowerCased(t_text)) = t_res

\* C8 amended: a 0x/0X that is left after the one leading prefix is removed is
\* hex data and is always rejected: as an invalid pair when what is left has
\* an even length in bytes, with the "even length" error when it is odd; a
\* leading prefix is removed once; the result does not depend on the letter
\* case of the digits.
C8_PrefixOnceAnyCase ==
    t_pc = "parsed" =>
        LET r == Remainder(t_text)
        IN  /\ Has0x(r) =>
                  /\ t_res.tag = "Err"
                  /\ str_len(r) % 2 = 0 => t_res.msg = "Invalid hex pair"
                  /\ str_len(r) % 2 = 1 =>
                        t_res.msg = "Hex string must have even length"
            /\ (r # << >> /\ Len(r) % 2 = 0 /\ AllHexDigits(r)) =>
                  t_res = Ok(HexDenotes(r))
            /\ t_res.tag = "Ok" =>
                  /\ parse_hex(UpperCased(t_text)) = t_res
                  /\ parse_hex(LowerCased(t_text)) = t_res

\* a doubled prefix was parsed: the second 0x was kept and rejected
C8_Witness ==
    /\ t_pc = "parsed"
    /\ t_text = << "0", "x", "0", "X" >>
    /\ t_res = Err("Invalid hex pair", << "0", "X" >>)

-----------------------------------------------------------------------------
(* Base64 codec: the engines general_purpose::STANDARD and                 *)
(* general_purpose::URL_SAFE of the base64 crate, both padded (RFC 4648)   *)

DIGIT_CHARS == << "0", "1", "2", "3", "4", "5", "6", "7", "8", "9" >>

STANDARD_ALPHABET == UPPER_LETTERS \o LOWER_LETTERS \o DIGIT_CHARS \o << "+", "/" >>
URL_SAFE_ALPHABET == UPPER_LETTERS \o LOWER_LETTERS \o DIGIT_CHARS \o << "-", "_" >>

\* Engine::encode: three bytes give four symbols; a last group of one or two
\* bytes gives two or three symbols and, when pad is set, '=' up to four
RECURSIVE engine_encode(_, _, _)
engine_encode(alphabet, pad, bytes) ==
    IF bytes = << >> THEN << >>
    ELSE IF Len(bytes) = 1
    THEN << alphabet[(bytes[1] \div 4) + 1], alphabet[((bytes[1] % 4) * 16) + 1] >>
         \o (IF pad THEN << "=", "=" >> ELSE << >>)
    ELSE IF Len(bytes) = 2
    THEN LET n == bytes[1] * 256 + bytes[2]
         IN  << alphabet[(n \div 1024) + 1], alphabet[((n \div 16) % 64) + 1],
                alphabet[((n % 16) * 4) + 1] >>
             \o (IF pad THEN << "=" >> ELSE << >>)
    ELSE LET n == bytes[1] * 65536 + bytes[2] * 256 + bytes[3]
         IN  << alphabet[(n \div 262144) + 1], alphabet[((n \div 4096) % 64) + 1],
                alphabet[((n \div 64) % 64) + 1], alphabet[(n % 64) + 1] >>
             \o engine_encode(alphabet, pad, SubSeq(bytes, 4, Len(bytes)))

\* the value of a symbol in an alphabet; -1 for a character outside it
symbol_value(alphabet, c) ==
    IF \E i \in 1..64 : alphabet[i] = c
    THEN (CHOOSE i \in 1..64 : alphabet[i] = c) - 1
    ELSE -1

RECURSIVE trailing_pads(_)
trailing_pads(s) ==
    IF s # << >> /\ s[Len(s)] = "="
    THEN 1 + trailing_pads(SubSeq(s, 1, Len(s) - 1)) ELSE 0

RECURSIVE decode_symbols(_, _)
decode_symbols(vs, bytes) ==
    IF vs = << >> THEN Ok(bytes)
    ELSE IF Len(vs) = 1 THEN Err("InvalidLength", << >>)
    ELSE IF Len(vs) = 2
    THEN IF vs[2] % 16 # 0 THEN Err("InvalidLastSymbol", << >>)
         ELSE Ok(Append(bytes, vs[1] * 4 + (vs[2] \div 16)))
    ELSE IF Len(vs) = 3
    THEN IF vs[3] % 4 # 0 THEN Err("InvalidLastSymbol", << >>)
         ELSE LET n == vs[1] * 4096 + vs[2] * 64 + vs[3]
              IN  Ok(bytes \o << n \div 1024, (n \div 4) % 256 >>)
    ELSE LET n == vs[1] * 262144 + vs[2] * 4096 + vs[3] * 64 + vs[4]
         IN  decode_symbols(SubSeq(vs, 5, Len(vs)),
                            bytes \o << n \div 65536, (n \div 256) % 256, n % 256 >>)

\* Engine::decode of a padded engine: padding is required and canonical,
\* trailing bits must be zero, every other character must be a symbol
engine_decode(alphabet, s) ==
    LET pads == trailing_pads(s)
        body == SubSeq(s, 1, Len(s) - pads)
        vs   == [i \in 1..Len(body) |-> symbol_value(alphabet, body[i])]
    IN  IF \E i \in 1..Len(vs) : vs[i] = -1 THEN Err("InvalidByte", << >>)
        ELSE IF pads > 2 \/ (pads > 0 /\ Len(body) % 4 < 2)
        THEN Err("InvalidByte", << >>)
        ELSE IF Len(body) % 4 = 1 THEN Err("InvalidLength", << >>)
        ELSE IF (Len(body) + pads) % 4 # 0 THEN Err("InvalidPadding", << >>)
        ELSE decode_symbols(vs, << >>)

STANDARD_decode(s) == engine_decode(STANDARD_ALPHABET, s)
URL_SAFE_decode(s) == engine_decode(URL_SAFE_ALPHABET, s)
STANDARD_encode(bytes) == engine_encode(STANDARD_ALPHABET, TRUE, bytes)
URL_SAFE_encode(bytes) == engine_encode(URL_SAFE_ALPHABET, TRUE, bytes)

\* a decoder that never falls back to the URL-safe alphabet
decode_classic_only(s) ==
    LET r == STANDARD_decode(s)
    IN  IF r.tag = "Ok" THEN r
        ELSE Err("Failed to decode as classic or URL-safe base64", r.msg)

\* the decoder of b64_to_hex: classic first, URL-safe on failure
decode_with_fallback(s) ==
    IF STANDARD_decode(s).tag = "Ok" THEN STANDARD_decode(s)
    ELSE LET r == URL_SAFE_decode(s)
         IN  IF r.tag = "Ok" THEN r
             ELSE Err("Failed to decode as classic or URL-safe base64", r.msg)

b64_to_hex(s, c) ==
    LET r == decode_with_fallback(s)
    IN  IF r.tag = "Ok" THEN Ok(bytes_to_hex(r.val, c)) ELSE r

\* the -url output without '=' padding
hex_to_b64_unpadded_url(s, urlsafe) ==
    LET r == parse_hex(s)
    IN  IF r.tag # "Ok" THEN r
        ELSE IF urlsafe THEN Ok(engine_encode(URL_SAFE_ALPHABET, FALSE, r.val))
        ELSE Ok(STANDARD_encode(r.val))

hex_to_b64(s, urlsafe) ==
    LET r == parse_hex(s)
    IN  IF r.tag # "Ok" THEN r
        ELSE IF urlsafe THEN Ok(URL_SAFE_encode(r.val))
        ELSE Ok(STANDARD_encode(r.val))

-----------------------------------------------------------------------------
(* The codecs applied to every short byte sequence over ByteSample *)

ByteSample == { 0, 15, 16, 62, 104, 251, 255 }

InitCodec ==
    /\ IdleMain
    /\ t_pc = "start"
    /\ t_bytes \in Strings(ByteSample, MaxBytes)
    /\ t_case \in {"Lower", "Upper"}
    /\ t_url \in BOOLEAN
    /\ t_text = << >> /\ t_res = NoResult /\ t_dec = NoResult

HexEncode ==
    /\ t_pc = "start"
    /\ t_text' = bytes_to_hex(t_bytes, t_case)
    /\ t_pc' = "hex"
    /\ UNCHANGED << t_bytes, t_case, t_url, t_res, t_dec >>
    /\ UNCHANGED mainVars

HexDecode ==
    /\ t_pc = "hex"
    /\ t_res' = parse_hex(t_text)
    /\ t_pc' = "hex_done"
    /\ UNCHANGED << t_text, t_bytes, t_case, t_url, t_dec >>
    /\ UNCHANGED mainVars

B64Encode ==
    /\ t_pc = "start"
    /\ t_text' = IF t_url THEN URL_SAFE_encode(t_bytes) ELSE STANDARD_encode(t_bytes)
    /\ t_pc' = "b64"
    /\ UNCHANGED << t_bytes, t_case, t_url, t_res, t_dec >>
    /\ UNCHANGED mainVars

B64Decode ==
    /\ t_pc = "b64"
    /\ t_dec' = decode_with_fallback(t_text)
    /\ t_res' = b64_to_hex(t_text, t_case)
    /\ t_pc' = "b64_done"
    /\ UNCHANGED << t_text, t_bytes, t_case, t_url >>
    /\ UNCHANGED mainVars

NextCodec == HexEncode \/ HexDecode \/ B64Encode \/ B64Decode

SpecCodec == InitCodec /\ [][NextCodec]_vars

\* C1: for every non-empty byte sequence B and both hex cases,
\* parse_hex(bytes_to_hex(B, c)) returns Ok with exactly B.
C1_HexRoundTrip ==
    (t_pc = "hex_done" /\ t_bytes # << >>) => t_res = Ok(t_bytes)

\* a sequence with a byte below 16 was rendered in upper case and parsed back
C1_Witness ==
    /\ t_pc = "hex_done"
    /\ t_case = "Upper"
    /\ t_bytes = << 15, 251 >>
    /\ t_text = << "0", "F", "F", "B" >>
    /\ t_res = Ok(t_bytes)

\* C3: for every byte sequence B, the classic-then-URL-safe decoder decodes
\* the classic and the URL-safe Base64 encoding of B to B, so b64_to_hex of
\* either encoding is the hex rendering of B.
C3_Base64RoundTrip ==
    t_pc = "b64_done" =>
        /\ t_dec = Ok(t_bytes)
        /\ t_res.tag = "Ok"
        /\ Len(t_res.val) = 2 * Len(t_bytes)
        /\ AllHexDigits(t_res.val)
        /\ HexDenotes(t_res.val) = t_bytes
        /\ t_res.val = (IF t_case = "Upper" THEN UpperCased(t_res.val)
                        ELSE LowerCased(t_res.val))

\* a URL-safe encoding that the classic decoder rejects was decoded
C3_Witness ==
    /\ t_pc = "b64_done"
    /\ t_url
    /\ t_bytes = << 251, 255 >>
    /\ t_text = << "-", "_", "8", "=" >>
    /\ STANDARD_decode(t_text).tag = "Err"
    /\ t_dec = Ok(t_bytes)

-----------------------------------------------------------------------------
(* The program: main *)

T_low == << "-", "l", "o", "w" >>
T_up  == << "-", "u", "p" >>
T_url == << "-", "u", "r", "l" >>
T_unknown == << "-", "x" >>

D_hex_hello == << "0", "x", "6", "8", "6", "5", "6", "c", "6", "c", "6", "f" >>
D_b64_hello == << "a", "G", "V", "s", "b", "G", "8", "=" >>
D_blank  == << " " >>
D_eacute == << "U+00E9" >>
D_spaced == << "0", "F", " ", "f", "b" >>

\* the command-line tokens of the model
ArgTokens == { T_low, T_up, T_url, T_unknown,
               D_hex_hello, D_b64_hello, D_blank, D_eacute, D_spaced }

\* argument zero as path components; << >> is a missing or nameless argument zero
ExePaths == { << "b64hex" >>, << "usr", "bin", "hexb64" >>, << "xxd" >>, << >> }

\* what read_stdin can return
StdinOutcomes ==
    { Ok(<< >>),
      Ok(<< "\n" >>),
      Ok(<< "a", "G", "V", "s", " ", "b", "G", "8", "=", "\n" >>),
      Ok(<< "-", "_", "8", "=", "\n" >>),
      Ok(<< "+", "f", "\n" >>),
      Ok(<< "a", "b", "c", "\n" >>),
      Err("Failed to read stdin", << >>) }

\* Path::new(&exe).file_name() ... .unwrap_or("hexb64")
file_name(path) == IF path = << >> THEN "hexb64" ELSE path[Len(path)]

\* the match on exe_name
detect_mode(name) ==
    IF name = "b64hex" THEN "B64ToHex"
    ELSE IF name = "hexb64" THEN "HexToB64"
    ELSE "None"

print_usage(m) == IF m = "B64ToHex" THEN "Usage: b64hex" ELSE "Usage: hexb64"

\* an argument loop in which a second bare token replaces the first
parse_arg_overwrite(cfg, arg) ==
    IF arg = T_low THEN [cfg EXCEPT !.hex_case = "Lower"]
    ELSE IF arg = T_up THEN [cfg EXCEPT !.hex_case = "Upper"]
    ELSE IF arg = T_url THEN [cfg EXCEPT !.b64_urlsafe = TRUE]
    ELSE IF ~starts_with(arg, << "-" >>) THEN [cfg EXCEPT !.data_arg = Ok(arg)]
    ELSE [cfg EXCEPT !.ok = FALSE]

\* an argument loop whose -low arm does nothing
parse_arg_low_ignored(cfg, arg) ==
    IF arg = T_low THEN cfg
    ELSE IF arg = T_up THEN [cfg EXCEPT !.hex_case = "Upper"]
    ELSE IF arg = T_url THEN [cfg EXCEPT !.b64_urlsafe = TRUE]
    ELSE IF ~starts_with(arg, << "-" >>) /\ cfg.data_arg.tag = "None"
    THEN [cfg EXCEPT !.data_arg = Ok(arg)]
    ELSE [cfg EXCEPT !.ok = FALSE]

\* one iteration of the argument loop: the match on arg.as_str()
parse_arg(cfg, arg) ==
    IF arg = T_low THEN [cfg EXCEPT !.hex_case = "Lower"]
    ELSE IF arg = T_up THEN [cfg EXCEPT !.hex_case = "Upper"]
    ELSE IF arg = T_url THEN [cfg EXCEPT !.b64_urlsafe = TRUE]
    ELSE IF ~starts_with(arg, << "-" >>) /\ cfg.data_arg.tag = "None"
    THEN [cfg EXCEPT !.data_arg = Ok(arg)]
    ELSE [cfg EXCEPT !.ok = FALSE]

\* a normalisation that only trims the ends
normalize_trim_only(raw) == trim(raw)

\* let input: String = input_raw.split_whitespace().collect()
normalize(raw) == split_whitespace_collect(raw)

\* the match on mode that does the conversion
convert(m, in, c, urlsafe) ==
    IF m = "B64ToHex" THEN b64_to_hex(in, c) ELSE hex_to_b64(in, urlsafe)

IdleTest ==
    /\ t_pc = "idle" /\ t_text = << >> /\ t_bytes = << >> /\ t_case = "Lower"
    /\ t_url = FALSE /\ t_res = NoResult /\ t_dec = NoResult

Init ==
    /\ IdleTest
    /\ pc = "DetectMode"
    /\ exe_name \in ExePaths
    /\ args \in Strings(ArgTokens, MaxArgs)
    /\ arg_i = 1
    /\ mode = "None" /\ hex_case = "Lower" /\ b64_urlsafe = FALSE
    /\ data_arg = NoResult /\ input_raw = << >> /\ input = << >>
    /\ result = NoResult /\ stdout = << >> /\ stderr = << >>
    /\ exit_code = -1 /\ fail = "none" /\ steps = << >>
    /\ stdin_read = FALSE /\ conv_calls = << >>

\* process::exit(code) after the diagnostics were written to stderr
Exit(code, kind, diagnostics) ==
    /\ pc' = "Exited"
    /\ exit_code' = code
    /\ fail' = kind
    /\ stderr' = stderr \o diagnostics

\* 1. Detect mode from executable name
DetectMode ==
    /\ pc = "DetectMode"
    /\ steps' = Append(steps, "ParseConfig")
    /\ mode' = detect_mode(file_name(exe_name))
    /\ IF mode' = "None"
       THEN Exit(1, "UnknownMode", << "Unknown mode for executable name" >>)
       ELSE /\ pc' = IF args = << >> THEN "AcquireInput" ELSE "ParseArgs"
            /\ UNCHANGED << exit_code, fail, stderr >>
    /\ UNCHANGED << exe_name, args, arg_i, hex_case, b64_urlsafe, data_arg,
                    input_raw, input, result, stdout, stdin_read, conv_calls >>
    /\ UNCHANGED testVars

\* 2. Parse flags and positional data arg: one iteration of the loop
ParseArg ==
    /\ pc = "ParseArgs"
    /\ arg_i <= Len(args)
    /\ LET cfg == [hex_case |-> hex_case, b64_urlsafe |-> b64_urlsafe,
                   data_arg |-> data_arg, ok |-> TRUE]
           new == parse_arg(cfg, args[arg_i])
       IN  /\ hex_case' = new.hex_case
           /\ b64_urlsafe' = new.b64_urlsafe
           /\ data_arg' = new.data_arg
           /\ IF new.ok
              THEN /\ pc' = IF arg_i = Len(args) THEN "AcquireInput" ELSE "ParseArgs"
                   /\ arg_i' = arg_i + 1
                   /\ UNCHANGED << exit_code, fail, stderr >>
              ELSE /\ Exit(1, "BadArgument",
                           << "Unknown or misplaced argument", print_usage(mode) >>)
                   /\ UNCHANGED arg_i
    /\ UNCHANGED << exe_name, args, mode, input_raw, input, result, stdout,
                    steps, stdin_read, conv_calls >>
    /\ UNCHANGED testVars

\* 3. Get input: from arg or stdin
AcquireInput ==
    /\ pc = "AcquireInput"
    /\ steps' = Append(steps, "AcquireInput")
    /\ IF data_arg.tag = "Ok"
       THEN /\ input_raw' = data_arg.val
            /\ pc' = "NormalizeInput"
            /\ UNCHANGED << stdin_read, exit_code, fail, stderr >>
       ELSE \E r \in StdinOutcomes :
            /\ stdin_read' = TRUE
            /\ IF r.tag = "Ok"
               THEN /\ input_raw' = r.val
                    /\ pc' = "NormalizeInput"
                    /\ UNCHANGED << exit_code, fail, stderr >>
               ELSE /\ Exit(1, "StdinRead", << "Failed to read stdin" >>)
                    /\ UNCHANGED input_raw
    /\ UNCHANGED << exe_name, args, arg_i, mode, hex_case, b64_urlsafe, data_arg,
                    input, result, stdout, conv_calls >>
    /\ UNCHANGED testVars

\* Normalize: drop all whitespace
NormalizeInput ==
    /\ pc = "NormalizeInput"
    /\ steps' = Append(steps, "NormalizeInput")
    /\ input' = normalize(input_raw)
    /\ IF input' = << >>
       THEN Exit(1, "NoInput", << "No input data provided.", print_usage(mode) >>)
       ELSE /\ pc' = "Convert"
            /\ UNCHANGED << exit_code, fail, stderr >>
    /\ UNCHANGED << exe_name, args, arg_i, mode, hex_case, b64_urlsafe, data_arg,
                    input_raw, result, stdout, stdin_read, conv_calls >>
    /\ UNCHANGED testVars

\* 4. Do conversion based on mode; an out-of-bounds index aborts the process
Convert ==
    /\ pc = "Convert"
    /\ steps' = Append(steps, "Convert")
    /\ conv_calls' = Append(conv_calls,
                            [fn |-> IF mode = "B64ToHex" THEN "b64_to_hex"
                                    ELSE "hex_to_b64",
                             in |-> input])
    /\ result' = convert(mode, input, hex_case, b64_urlsafe)
    /\ IF result'.tag = "Panic"
       THEN Exit(101, "Panic", << "thread 'main' panicked" >>)
       ELSE /\ pc' = "Emit"
            /\ UNCHANGED << exit_code, fail, stderr >>
    /\ UNCHANGED << exe_name, args, arg_i, mode, hex_case, b64_urlsafe, data_arg,
                    input_raw, input, stdout, stdin_read >>
    /\ UNCHANGED testVars

\* the match on result: print the output, or the error and exit(1)
Emit ==
    /\ pc = "Emit"
    /\ steps' = Append(steps, "Emit")
    /\ IF result.tag = "Ok"
       THEN /\ stdout' = Append(stdout, result.val \o << "\n" >>)
            /\ pc' = "Exited"
            /\ exit_code' = 0
            /\ UNCHANGED << fail, stderr >>
       ELSE /\ Exit(1, "CodecError", << "Error: " \o result.msg >>)
            /\ UNCHANGED stdout
    /\ UNCHANGED << exe_name, args, arg_i, mode, hex_case, b64_urlsafe, data_arg,
                    input_raw, input, result, stdin_read, conv_calls >>
    /\ UNCHANGED testVars

Next ==
    \/ DetectMode
    \/ ParseArg
    \/ AcquireInput
    \/ NormalizeInput
    \/ Convert
    \/ Emit

Spec == Init /\ [][Next]_vars

-----------------------------------------------------------------------------
(* Properties of main *)

IsFlag(tok) == tok \in {T_low, T_up, T_url}
IsBare(tok) == tok = << >> \/ tok[1] # "-"

\* the positions of the tokens that are neither a flag nor the first bare token
BadPositions(as) ==
    { i \in 1..Len(as) :
        \/ (~IsBare(as[i]) /\ ~IsFlag(as[i]))
        \/ (IsBare(as[i]) /\ \E j \in 1..(i - 1) : IsBare(as[j])) }

BarePositions(as) == { i \in 1..Len(as) : IsBare(as[i]) }

Least(S) == CHOOSE i \in S : \A j \in S : i <= j
Greatest(S) == CHOOSE i \in S : \A j \in S : j <= i

ParsingAccepted == pc \in {"AcquireInput", "NormalizeInput", "Convert", "Emit"}
                   \/ (pc = "Exited" /\ fail \notin {"UnknownMode", "BadArgument"})

\* C5: once the mode is known, the first token not starting with '-' is the
\* positional data argument; a second such token, and every token starting
\* with '-' other than -low, -up and -url, ends the run with the usage error
\* (non-zero exit, nothing on standard output) before any input is read or
\* converted.
C5_ArgumentParsing ==
    mode # "None" =>
        /\ ParsingAccepted =>
              /\ BadPositions(args) = {}
              /\ data_arg = IF BarePositions(args) = {} THEN NoResult
                            ELSE Ok(args[Least(BarePositions(args))])
        /\ BadPositions(args) # {} =>
              /\ pc \in {"ParseArgs", "Exited"}
              /\ ~stdin_read /\ input_raw = << >> /\ conv_calls = << >>
              /\ stdout = << >>
              /\ pc = "Exited" =>
                    /\ fail = "BadArgument"
                    /\ exit_code # 0
                    /\ stderr = << "Unknown or misplaced argument", print_usage(mode) >>
                    /\ arg_i = Least(BadPositions(args))

\* a second bare token ended the run after the first was taken as the data
C5_Witness ==
    /\ pc = "Exited"
    /\ fail = "BadArgument"
    /\ args = << D_b64_hello, T_up, D_hex_hello >>
    /\ data_arg = Ok(D_b64_hello)
    /\ arg_i = 3

STAGES == << "ParseConfig", "AcquireInput", "NormalizeInput", "Convert", "Emit" >>

\* C6: every run goes through ParseConfig, AcquireInput, NormalizeInput,
\* Convert, Emit in this order with no step repeated, and ends either in the
\* success state (one newline-terminated line on standard output, exit
\* status 0) or in one of the failure states unknown invocation name, bad
\* argument, stdin read error, empty input, codec error (nothing on standard
\* output, non-zero exit status).
C6_SequentialRun ==
    /\ Len(steps) <= Len(STAGES)
    /\ steps = SubSeq(STAGES, 1, Len(steps))
    /\ pc = "Exited" =>
          \/ /\ fail = "none"
             /\ steps = STAGES
             /\ Len(stdout) = 1
             /\ stdout[1][Len(stdout[1])] = "\n"
             /\ exit_code = 0
          \/ /\ fail \in {"UnknownMode", "BadArgument", "StdinRead", "NoInput",
                          "CodecError"}
             /\ stdout = << >>
             /\ exit_code # 0

AllWhitespace(s) == \A i \in 1..Len(s) : IsWhitespace(s[i])

\* C7: whenever b64_to_hex or hex_to_b64 is called from main, its input is
\* non-empty and holds no whitespace; a raw input that is empty or all
\* whitespace ends the run with the "No input data provided" failure and a
\* non-zero exit, without any conversion.
C7_NormalizedInput ==
    /\ \A k \in 1..Len(conv_calls) :
          /\ conv_calls[k].in # << >>
          /\ NoWhitespace(conv_calls[k].in)
          /\ conv_calls[k].in = WithoutWhitespace(input_raw)
    /\ (Len(steps) >= 3 /\ AllWhitespace(input_raw)) =>
          /\ pc = "Exited"
          /\ fail = "NoInput"
          /\ exit_code # 0
          /\ stderr = << "No input data provided.", print_usage(mode) >>
          /\ conv_calls = << >>
          /\ stdout = << >>

\* a conversion was called on a raw input that held whitespace
C7_Witness ==
    /\ pc = "Exited"
    /\ input_raw = D_spaced
    /\ conv_calls = << [fn |-> "hex_to_b64", in |-> << "0", "F", "f", "b" >>] >>

\* the case selected by the last -low or -up of an argument list
LastCase(as) ==
    LET cs == { i \in 1..Len(as) : as[i] \in {T_low, T_up} }
    IN  IF cs = {} THEN "Lower"
        ELSE IF as[Greatest(cs)] = T_up THEN "Upper" ELSE "Lower"

\* C9: in Base64ToHex mode the case of the hex output is the one selected by
\* the last -low or -up of the argument list (Lower when there is none),
\* wherever the flags stand; -url in Base64ToHex mode and -low/-up in
\* HexToBase64 mode are accepted and leave the output unchanged.
C9_LastCaseFlagWins ==
    (pc = "Exited" /\ fail = "none") =>
        LET in  == WithoutWhitespace(input_raw)
            out == SubSeq(stdout[1], 1, Len(stdout[1]) - 1)
        IN  /\ mode = "B64ToHex" =>
                  /\ out = b64_to_hex(in, LastCase(args)).val
                  /\ out = (IF LastCase(args) = "Upper" THEN UpperCased(out)
                            ELSE LowerCased(out))
            /\ mode = "HexToB64" =>
                  out = hex_to_b64(in, \E i \in 1..Len(args) : args[i] = T_url).val

\* -low after -up and after the data gave lower-case output
C9_Witness ==
    /\ pc = "Exited"
    /\ mode = "B64ToHex"
    /\ args = << T_up, D_b64_hello, T_low >>
    /\ stdout = << << "6", "8", "6", "5", "6", "c", "6", "c", "6", "f", "\n" >> >>

\* a finished run of the program invoked under the name hexb64
HexbInvocation(as) ==
    exe_name = << "usr", "bin", "hexb64" >> /\ args = as /\ pc = "Exited"

\* C4 as stated: hexb64 0x68656c6c6f prints aGVsbG8=, and with -url it
\* prints aGVsbG8.
C4_UrlOutputUnpadded ==
    /\ HexbInvocation(<< D_hex_hello >>) =>
          stdout = << << "a", "G", "V", "s", "b", "G", "8", "=", "\n" >> >>
    /\ (HexbInvocation(<< T_url, D_hex_hello >>)
        \/ HexbInvocation(<< D_hex_hello, T_url >>)) =>
          stdout = << << "a", "G", "V", "s", "b", "G", "8", "\n" >> >>

\* C4 amended: hexb64 0x68656c6c6f prints aGVsbG8=, and with -url it prints
\* aGVsbG8= as well: the URL-safe encoder pads.
C4_HelloScenario ==
    /\ HexbInvocation(<< D_hex_hello >>) =>
          /\ stdout = << << "a", "G", "V", "s", "b", "G", "8", "=", "\n" >> >>
          /\ exit_code = 0
    /\ (HexbInvocation(<< T_url, D_hex_hello >>)
        \/ HexbInvocation(<< D_hex_hello, T_url >>)) =>
          /\ stdout = << << "a", "G", "V", "s", "b", "G", "8", "=", "\n" >> >>
          /\ exit_code = 0

\* the run with -url ended with output
C4_Witness ==
    /\ HexbInvocation(<< T_url, D_hex_hello >>)
    /\ b64_urlsafe
    /\ input = D_hex_hello
    /\ Len(stdout) = 1

====
